---- MODULE Spec2Model ----
(***************************************************************************)
(* Model of 5_reddit_video_generator_video_bg_fixed.py: the duration       *)
(* prober (get_precise_duration), the timeline and filter-graph builder    *)
(* and the ffmpeg invocation (create_vertical_video_with_video_bg) and the *)
(* driver (main).                                                          *)
(*                                                                         *)
(* Times are Python floats.  A float is modelled as an integer number of   *)
(* quanta of 1/Scale seconds that has at most MantBits significant bits;   *)
(* every arithmetic operation rounds its exact result to the nearest such  *)
(* number, ties to even, as IEEE-754 binary floating point does.           *)
(***************************************************************************)
EXTENDS Integers, Sequences, FiniteSets, TLC

\* ------------------------------------------------------------------ bounds
MaxN == 2
MantBits == 8
FracBits == 6
MaxRuns == 2

\* ------------------------------------------------------- float arithmetic
RECURSIVE Pow2(_)
Pow2(n) == IF n = 0 THEN 1 ELSE 2 * Pow2(n - 1)

Scale == Pow2(FracBits)

Abs(x) == IF x < 0 THEN 0 - x ELSE x

RECURSIVE StepFrom(_, _)
\* spacing of the floats around the magnitude n
StepFrom(n, s) == IF n < s * Pow2(MantBits) THEN s ELSE StepFrom(n, 2 * s)

Ulp(x) == StepFrom(Abs(x), 1)

RoundNat(n) ==
    LET s == StepFrom(n, 1)
        q == n \div s
        r == n % s
    IN  IF 2 * r < s THEN q * s
        ELSE IF 2 * r > s THEN (q + 1) * s
        ELSE IF q % 2 = 0 THEN q * s ELSE (q + 1) * s

Round(x) == IF x < 0 THEN 0 - RoundNat(0 - x) ELSE RoundNat(x)

IsFloat(x) == Round(x) = x

FAdd(a, b) == Round(a + b)
FSub(a, b) == Round(a - b)
\* int * float: k is an int, b a float in quanta
FMul(k, b) == Round(k * b)

\* ------------------------------------------------------ program constants
intro_duration == 2 * Scale
outro_duration == 2 * Scale
pause_duration == Scale \div 2
FallbackDuration == 2 * Scale

\* durations ffprobe may report, in quanta of 1/Scale s
ClipDurations == {0, 101, 192}

RequiredPaths == {"poem_csv", "image_dir", "audio_dir", "background_video"}
TempNames == {"tmpA", "tmpB"}

VARIABLES
    pc,               \* position of the script
    present,          \* which of the required paths exist
    musicExists,      \* whether music_file exists on disk right now
    ffprobeAvailable, \* whether the ffprobe executable can be started
    sumMode,          \* float summation of the interpreter's sum()
    run,              \* number of the current run of the script
    prev,             \* inputs and results of the previous run
    outDirMade,       \* os.makedirs(output_dir) has run
    N,                \* len(df)
    idx,              \* loop index
    probeLog,         \* per clip: what the prober's queries did
    audio_durations,
    total_duration,
    temp_dir,
    filter_parts,
    audio_parts,
    video_parts,
    current_time,
    audio_output,
    musicInGraph,     \* outcome of os.path.exists(music_file), line 143
    cmd_inputs,       \* the -i arguments of cmd, in order
    cmd_rest,         \* filter_complex, -map and -t arguments of cmd
    engineRuns,       \* number of subprocess.run(cmd) calls
    returncode,
    debugSaved,       \* what was written to debug_command.txt
    missingInput,     \* the kind of per-line file ffmpeg could not open
    outputFile,       \* what ffmpeg did to the file at output_video
    printed,          \* the message printed after ffmpeg returned
    returned          \* what the function gave back to main

vars == <<pc, present, musicExists, ffprobeAvailable, sumMode,
          run, prev, outDirMade, N, idx, probeLog, audio_durations,
          total_duration, temp_dir, filter_parts, audio_parts, video_parts,
          current_time, audio_output, musicInGraph, cmd_inputs, cmd_rest,
          engineRuns, returncode, debugSaved, missingInput, outputFile,
          printed, returned>>

envVars == <<present, ffprobeAvailable, sumMode>>
buildVars == <<temp_dir, filter_parts, audio_parts, video_parts,
               current_time, audio_output, musicInGraph>>
cmdVars == <<cmd_inputs, cmd_rest>>
engineVars == <<engineRuns, returncode, debugSaved, missingInput,
                outputFile, printed, returned>>
probeVars == <<probeLog, audio_durations>>

None == -1
NoPrev == [N |-> None]

ProgramInit ==
    /\ pc = "main"
    /\ outDirMade = FALSE
    /\ N = None
    /\ idx = 0
    /\ probeLog = <<>>
    /\ audio_durations = <<>>
    /\ total_duration = None
    /\ temp_dir = "none"
    /\ filter_parts = <<>>
    /\ audio_parts = <<>>
    /\ video_parts = <<>>
    /\ current_time = None
    /\ audio_output = "none"
    /\ musicInGraph = FALSE
    /\ cmd_inputs = <<>>
    /\ cmd_rest = <<>>
    /\ engineRuns = 0
    /\ returncode = None
    /\ debugSaved = <<>>
    /\ missingInput = "unknown"
    /\ outputFile = "unknown"
    /\ printed = "nothing"
    /\ returned = "nothing"

Init ==
    /\ present \in SUBSET RequiredPaths
    /\ musicExists \in BOOLEAN
    /\ ffprobeAvailable \in BOOLEAN
    /\ sumMode \in {"naive", "compensated"}
    /\ run = 1
    /\ prev = NoPrev
    /\ ProgramInit

\* ------------------------------------------------------------------ main
\* main, lines 229-234: ffmpeg -version must run
CheckFfmpeg ==
    /\ pc = "main"
    /\ \E ok \in BOOLEAN : pc' = IF ok THEN "check_files" ELSE "exit_no_ffmpeg"
    /\ UNCHANGED <<envVars, musicExists, run, prev, outDirMade, N,
                   idx, probeVars, total_duration, buildVars, cmdVars,
                   engineVars>>

\* the background video left out of the list of checked paths
AllRequiredExistButVideo ==
    (RequiredPaths \ {"background_video"}) \subseteq present

\* line 236: all(os.path.exists(p) for p in [...])
AllRequiredExist == RequiredPaths \subseteq present

\* main, lines 236-244
CheckRequired ==
    /\ pc = "check_files"
    /\ pc' = IF AllRequiredExist THEN "makedirs" ELSE "exit_missing"
    /\ UNCHANGED <<envVars, musicExists, run, prev, outDirMade, N,
                   idx, probeVars, total_duration, buildVars, cmdVars,
                   engineVars>>

\* lines 38-41
MakeOutputDir ==
    /\ pc = "makedirs"
    /\ outDirMade' = TRUE
    /\ pc' = "read_csv"
    /\ UNCHANGED <<envVars, musicExists, run, prev, N,
                   idx, probeVars, total_duration, buildVars, cmdVars,
                   engineVars>>

\* line 44: df = pd.read_csv(csv_file); a rerun reads the same file
ReadCsv ==
    /\ pc = "read_csv"
    /\ \E n \in 0..MaxN :
          /\ prev # NoPrev => n = prev.N
          /\ N' = n
    /\ idx' = 0
    /\ pc' = IF N' = 0 THEN "total" ELSE "probe_primary"
    /\ UNCHANGED <<envVars, musicExists, run, prev, outDirMade,
                   probeVars, total_duration, buildVars, cmdVars, engineVars>>

\* ------------------------------------------------- get_precise_duration
\* what one ffprobe query can do: the executable cannot be started
\* (check_output raises FileNotFoundError), it runs and its output parses
\* to a duration, or it runs and float()/json.loads()/the key lookup raises
QueryOutcomes == IF ffprobeAvailable THEN {"ok", "fail"} ELSE {"unavailable"}

\* a rerun probes the same clips: each query does what it did before
SamePrimary(o, v) ==
    prev # NoPrev => /\ prev.probeLog[idx + 1].primary = o
                     /\ o = "ok" => prev.probeLog[idx + 1].reported = v
SameAlternate(o, v) ==
    prev # NoPrev => /\ prev.probeLog[idx + 1].alternate = o
                     /\ o = "ok" => prev.probeLog[idx + 1].reported = v

\* the handler of the primary query gives up at once
PrimaryHandlerSkipsAlternate(outcome) == "probe_fallback"

\* line 25: the bare except of the primary query catches every exception
PrimaryHandler(outcome) == "probe_alt"

\* line 32: the bare except of the alternate query catches every exception
AlternateHandler(outcome) == "probe_fallback"

\* line 63: audio_durations.append(duration)
AppendDuration(ds, d) == Append(ds, d)

\* the fallback put in front of the list
ReturnFallbackFirst(ds) == <<FallbackDuration>> \o ds

\* lines 33 and 63: the fallback 2.0 is returned and appended
ReturnFallback(ds) == AppendDuration(ds, FallbackDuration)

\* the loop left after its first clip
AfterProbeLeavesLoop(i) == "total"

\* line 60: the loop goes on to the next clip, or ends after the last
AfterProbe(i) == IF i + 1 < N THEN "probe_primary" ELSE "total"

\* lines 16-24, called from line 62: the primary query (-show_format, JSON)
ProbePrimary ==
    /\ pc = "probe_primary"
    /\ \E o \in QueryOutcomes :
         \/ /\ o = "ok"
            /\ \E v \in ClipDurations :
                 /\ SamePrimary(o, v)
                 /\ probeLog' = Append(probeLog,
                        [primary |-> o, alternate |-> "skipped",
                         reported |-> v, src |-> "primary"])
                 /\ audio_durations' = AppendDuration(audio_durations, v)
            /\ idx' = idx + 1
            /\ pc' = AfterProbe(idx)
         \/ /\ o # "ok"
            /\ SamePrimary(o, None)
            /\ probeLog' = Append(probeLog,
                   [primary |-> o, alternate |-> "skipped",
                    reported |-> None, src |-> "pending"])
            /\ pc' = PrimaryHandler(o)
            /\ UNCHANGED <<idx, audio_durations>>
    /\ UNCHANGED <<envVars, musicExists, run, prev, outDirMade, N,
                   total_duration, buildVars, cmdVars, engineVars>>

SetLast(log, alt, rep, src) ==
    [log EXCEPT ![Len(log)] =
        [primary |-> log[Len(log)].primary, alternate |-> alt,
         reported |-> rep, src |-> src]]

\* lines 27-31: the alternate query (-show_entries format=duration)
ProbeAlternate ==
    /\ pc = "probe_alt"
    /\ \E o \in QueryOutcomes :
         \/ /\ o = "ok"
            /\ \E v \in ClipDurations :
                 /\ SameAlternate(o, v)
                 /\ probeLog' = SetLast(probeLog, o, v, "alternate")
                 /\ audio_durations' = AppendDuration(audio_durations, v)
            /\ idx' = idx + 1
            /\ pc' = AfterProbe(idx)
         \/ /\ o # "ok"
            /\ SameAlternate(o, None)
            /\ probeLog' = SetLast(probeLog, o, None, "pending")
            /\ pc' = AlternateHandler(o)
            /\ UNCHANGED <<idx, audio_durations>>
    /\ UNCHANGED <<envVars, musicExists, run, prev, outDirMade, N,
                   total_duration, buildVars, cmdVars, engineVars>>

\* lines 32-33: return 2.0
ProbeFallback ==
    /\ pc = "probe_fallback"
    /\ probeLog' = SetLast(probeLog, probeLog[Len(probeLog)].alternate,
                           None, "fallback")
    /\ audio_durations' = ReturnFallback(audio_durations)
    /\ idx' = idx + 1
    /\ pc' = AfterProbe(idx)
    /\ UNCHANGED <<envVars, musicExists, run, prev, outDirMade, N,
                   total_duration, buildVars, cmdVars, engineVars>>

\* ------------------------------------------------------ total duration
RECURSIVE NaiveSum(_, _, _)
\* sum() before Python 3.12: a left-to-right fold from the int 0
NaiveSum(ds, i, s) ==
    IF i > Len(ds) THEN s ELSE NaiveSum(ds, i + 1, FAdd(s, ds[i]))

RECURSIVE NeumaierSum(_, _, _, _)
\* sum() from Python 3.12 on: Neumaier's compensated summation of floats
NeumaierSum(ds, i, s, c) ==
    IF i > Len(ds)
    THEN IF c # 0 THEN FAdd(s, c) ELSE s
    ELSE LET x == ds[i]
             t == FAdd(s, x)
             c2 == IF Abs(s) >= Abs(x)
                   THEN FAdd(c, FAdd(FSub(s, t), x))
                   ELSE FAdd(c, FAdd(FSub(x, t), s))
         IN  NeumaierSum(ds, i + 1, t, c2)

PySum(ds) == IF sumMode = "naive" THEN NaiveSum(ds, 1, 0)
                                  ELSE NeumaierSum(ds, 1, 0, 0)

\* the pause counted once per segment instead of once per gap
TotalDurationPausePerSegment(ds, n) ==
    FAdd(FAdd(FAdd(intro_duration, PySum(ds)), FMul(n, pause_duration)),
         outro_duration)

\* the expression of line 66, evaluated left to right
TotalDuration(ds, n) ==
    FAdd(FAdd(FAdd(intro_duration, PySum(ds)), FMul(n - 1, pause_duration)),
         outro_duration)

\* line 66
ComputeTotal ==
    /\ pc = "total"
    /\ total_duration' = TotalDuration(audio_durations, N)
    /\ pc' = "build_head"
    /\ UNCHANGED <<envVars, musicExists, run, prev, outDirMade, N,
                   idx, probeVars, buildVars, cmdVars, engineVars>>

\* ------------------------------------------------------- the filter graph
\* segment labels numbered by a counter that outlives one build
LabFromGlobalCounter(name, i) ==
    [name |-> name, i |-> IF i = None THEN None ELSE i + (run - 1) * MaxN]

\* a pad label such as [bg], [v0], [pause_audio1]; i is None when the
\* label carries no segment index
Lab(name, i) == [name |-> name, i |-> i]
\* an external input reference [k:v] or [k:a]
Ext(k, stream) == [name |-> stream, i |-> k]
IsExt(ref) == ref.name \in {"ext:v", "ext:a"}

\* one filter of filter_parts: its input pads, its output pad and its
\* time parameters as they are printed into the text (repr of the float)
Node(kind, ins, out, t0, t1) ==
    [kind |-> kind, ins |-> ins, out |-> out, t0 |-> t0, t1 |-> t1]

\* line 77
BgNode == Node("scalecrop", <<Ext(0, "ext:v")>>, Lab("bg", None), None, None)
\* lines 80, 108, 114: aevalsrc=0:duration=d
Silence(lab, d) == Node("aevalsrc", <<>>, lab, d, None)
\* lines 90, 106, 113, 122: [bg]trim=a:b,setpts=PTS-STARTPTS
Trim(a, b, lab) == Node("trim", <<Lab("bg", None)>>, lab, a, b)

\* line 93: the image of segment i is external input i + 1
ImageInput(i) == i + 1
\* the background video at index 0 forgotten
AudioInputOffByOne(i, n) == n + i

\* line 99: the audio of segment i is external input len(df) + i + 1
AudioInput(i, n) == n + i + 1
\* line 146: the music is external input len(df) * 2 + 1
MusicInput(n) == n * 2 + 1
\* a pause after the last segment too
HasPauseAfterEvery(i, n) == i < n

\* lines 104 and 128: a pause follows every segment but the last
HasPause(i, n) == i < n - 1

\* lines 71-84: enter the temporary directory, start the lists
BuildHead ==
    /\ pc = "build_head"
    /\ temp_dir' \in TempNames
    /\ filter_parts' = <<BgNode,
                         Silence(Lab("intro_audio", None), intro_duration)>>
    /\ audio_parts' = <<Lab("intro_audio", None)>>
    /\ current_time' = intro_duration
    /\ idx' = 0
    /\ pc' = IF N > 0 THEN "build_segment" ELSE "build_outro"
    /\ UNCHANGED <<envVars, musicExists, run, prev, outDirMade, N,
                   probeVars, total_duration, video_parts, audio_output,
                   musicInGraph, cmdVars, engineVars>>

\* the segment's length given to trim where its end is expected
SegmentNodesTrimByLength(i, ct, duration) ==
    << Trim(ct, duration, Lab("bg", i)),
       Node("scale", <<Ext(ImageInput(i), "ext:v")>>, Lab("overlay", i),
            None, None),
       Node("overlay", <<Lab("bg", i), Lab("overlay", i)>>, Lab("v", i),
            None, None) >>

\* lines 86-101: the filters of segment i starting at clock ct
SegmentNodes(i, ct, duration) ==
    << Trim(ct, FAdd(ct, duration), Lab("bg", i)),
       Node("scale", <<Ext(ImageInput(i), "ext:v")>>, Lab("overlay", i),
            None, None),
       Node("overlay", <<Lab("bg", i), Lab("overlay", i)>>, Lab("v", i),
            None, None) >>

\* the pause trim written to the pad of the segment's own trim
PauseNodesOnSegmentPad(i, ct) ==
    << Trim(ct, FAdd(ct, pause_duration), Lab("bg", i)),
       Silence(Lab("pause_audio", i), pause_duration) >>

\* lines 104-110: the filters of the pause after segment i, at clock ct
PauseNodes(i, ct) ==
    << Trim(ct, FAdd(ct, pause_duration), Lab("pause", i)),
       Silence(Lab("pause_audio", i), pause_duration) >>

\* lines 85-110: one iteration of the loop over the comments
BuildSegment ==
    /\ pc = "build_segment"
    /\ LET duration == audio_durations[idx + 1]
           ct1 == FAdd(current_time, duration)
       IN  IF HasPause(idx, N)
           THEN /\ filter_parts' = filter_parts
                        \o SegmentNodes(idx, current_time, duration)
                        \o PauseNodes(idx, ct1)
                /\ audio_parts' = audio_parts
                        \o <<Ext(AudioInput(idx, N), "ext:a"),
                             Lab("pause_audio", idx)>>
                /\ current_time' = FAdd(ct1, pause_duration)
           ELSE /\ filter_parts' = filter_parts
                        \o SegmentNodes(idx, current_time, duration)
                /\ audio_parts' = Append(audio_parts,
                                         Ext(AudioInput(idx, N), "ext:a"))
                /\ current_time' = ct1
    /\ idx' = idx + 1
    /\ pc' = IF idx + 1 < N THEN "build_segment" ELSE "build_outro"
    /\ UNCHANGED <<envVars, musicExists, run, prev, outDirMade, N,
                   probeVars, total_duration, temp_dir, video_parts,
                   audio_output, musicInGraph, cmdVars, engineVars>>

\* lines 113-115
BuildOutro ==
    /\ pc = "build_outro"
    /\ filter_parts' = filter_parts \o
          << Trim(current_time, FAdd(current_time, outro_duration),
                  Lab("outro_v", None)),
             Silence(Lab("outro_audio", None), outro_duration) >>
    /\ audio_parts' = Append(audio_parts, Lab("outro_audio", None))
    /\ pc' = "build_video_concat"
    /\ UNCHANGED <<envVars, musicExists, run, prev, outDirMade, N,
                   idx, probeVars, total_duration, temp_dir, video_parts,
                   current_time, audio_output, musicInGraph, cmdVars,
                   engineVars>>

RECURSIVE SegmentParts(_, _)
\* lines 126-129: [v0][pause0][v1]...[v(n-1)], from segment i on
SegmentParts(i, n) ==
    IF i >= n THEN <<>>
    ELSE (IF HasPause(i, n) THEN <<Lab("v", i), Lab("pause", i)>>
                            ELSE <<Lab("v", i)>>)
         \o SegmentParts(i + 1, n)

\* lines 119-132
VideoParts(n) ==
    <<Lab("intro_v", None)>> \o SegmentParts(0, n) \o <<Lab("outro_v", None)>>

\* the count taken before the last pad was appended
ConcatCountsOneLess(kind, parts, out) ==
    Node(kind, parts, out, Len(parts) - 1, None)

\* lines 135-136 and 139-140: concat=n=<count of the listed pads>
Concat(kind, parts, out) == Node(kind, parts, out, Len(parts), None)

\* the video concat emitted ahead of the intro trim it reads
VideoConcatBeforeIntroTrim(parts) ==
    << Concat("concat_v", parts, Lab("video", None)),
       Trim(0, intro_duration, Lab("intro_v", None)) >>

\* lines 122 and 136: the intro trim, then the concat of the video pads
VideoConcatNodes(parts) ==
    << Trim(0, intro_duration, Lab("intro_v", None)),
       Concat("concat_v", parts, Lab("video", None)) >>

\* lines 118-136: the intro trim, the list of video pads, the video concat
BuildVideoConcat ==
    /\ pc = "build_video_concat"
    /\ video_parts' = VideoParts(N)
    /\ filter_parts' = filter_parts \o VideoConcatNodes(video_parts')
    /\ pc' = "build_audio_concat"
    /\ UNCHANGED <<envVars, musicExists, run, prev, outDirMade, N,
                   idx, probeVars, total_duration, temp_dir, audio_parts,
                   current_time, audio_output, musicInGraph, cmdVars,
                   engineVars>>

\* lines 139-140
BuildAudioConcat ==
    /\ pc = "build_audio_concat"
    /\ filter_parts' = Append(filter_parts,
          Concat("concat_a", audio_parts, Lab("concat_audio", None)))
    /\ pc' = "mix_music"
    /\ UNCHANGED <<envVars, musicExists, run, prev, outDirMade, N,
                   idx, probeVars, total_duration, temp_dir, audio_parts,
                   video_parts, current_time, audio_output, musicInGraph,
                   cmdVars, engineVars>>

\* lines 145-147
MusicNodes(n) ==
    << Node("volume_highpass_lowpass", <<Lab("concat_audio", None)>>,
            Lab("voice", None), None, None),
       Node("volume_music", <<Ext(MusicInput(n), "ext:a")>>,
            Lab("music", None), None, None),
       Node("amix", <<Lab("voice", None), Lab("music", None)>>,
            Lab("final_audio", None), None, None) >>

\* line 151
VoiceOnlyNodes ==
    << Node("volume", <<Lab("concat_audio", None)>>,
            Lab("final_audio", None), None, None) >>

\* lines 142-152: os.path.exists(music_file) decides the audio tail
MixMusic ==
    /\ pc = "mix_music"
    /\ musicInGraph' = musicExists
    /\ filter_parts' = filter_parts \o
          (IF musicExists THEN MusicNodes(N) ELSE VoiceOnlyNodes)
    /\ audio_output' = "final_audio"
    /\ pc' = "build_cmd"
    /\ UNCHANGED <<envVars, musicExists, run, prev, outDirMade, N,
                   idx, probeVars, total_duration, temp_dir, audio_parts,
                   video_parts, current_time, cmdVars, engineVars>>

\* -------------------------------------------------------- the ffmpeg call
\* an input file of the command
Res(what, i) == [what |-> what, i |-> i]

RECURSIVE InputsOf(_, _, _)
\* lines 164-166 and 169-171: one -i per segment, in segment order
InputsOf(what, i, n) ==
    IF i >= n THEN <<>> ELSE <<Res(what, i)>> \o InputsOf(what, i + 1, n)

\* lines 158-171: ffmpeg -y -i background -i images... -i audios...
FixedInputs(n) ==
    <<Res("background_video", None)>> \o InputsOf("image", 0, n)
                                      \o InputsOf("audio", 0, n)

\* lines 155-171
BuildCmdInputs ==
    /\ pc = "build_cmd"
    /\ cmd_inputs' = FixedInputs(N)
    /\ pc' = "cmd_music"
    /\ UNCHANGED <<envVars, musicExists, run, prev, outDirMade, N,
                   idx, probeVars, total_duration, buildVars, cmd_rest,
                   engineVars>>

\* lines 173-175: a second os.path.exists(music_file)
MusicInputs(exists) == IF exists THEN <<Res("music", None)>> ELSE <<>>

\* lines 173-202: the music input, -filter_complex, -map, codec options, -t
FinishCmd ==
    /\ pc = "cmd_music"
    /\ cmd_inputs' = cmd_inputs \o MusicInputs(musicExists)
    /\ cmd_rest' = <<[filter_complex |-> filter_parts,
                      map |-> <<"video", audio_output>>,
                      t |-> total_duration,
                      output |-> "output_video"]>>
    /\ pc' = "run_engine"
    /\ UNCHANGED <<envVars, musicExists, run, prev, outDirMade, N,
                   idx, probeVars, total_duration, buildVars, engineVars>>

\* the external input indices the graph text refers to
ExtRefs(parts) ==
    UNION { { parts[k].ins[j].i : j \in { m \in 1..Len(parts[k].ins) :
                                           IsExt(parts[k].ins[m]) } } :
            k \in 1..Len(parts) }

\* ffmpeg rejects a graph that names an input it was not given
EngineCanSucceed ==
    \A r \in ExtRefs(filter_parts) : r < Len(cmd_inputs)

\* The per-line files are never tested by the script (main tests the two
\* directories only).  ffmpeg is the first to open the images; a missing
\* audio clip makes both ffprobe queries fail, which the prober cannot tell
\* from unreadable output, so it can only be a clip that got the fallback.
MissingChoices ==
    {"none"}
    \cup (IF N >= 1 THEN {"image"} ELSE {})
    \cup (IF \E j \in 1..N : probeLog[j].src = "fallback"
          THEN {"audio"} ELSE {})

\* lines 210-219: the messages and the debug file after ffmpeg returned;
\* the function ends without a return statement in both branches
AfterEngine(rc) ==
    /\ returned' = "None"
    /\ IF rc = 0
       THEN /\ pc' = "done_ok"
            /\ printed' = "Video created successfully"
            /\ UNCHANGED debugSaved
       ELSE /\ pc' = "done_failed"
            /\ printed' = "Error creating video: stderr"
            /\ debugSaved' = <<[inputs |-> cmd_inputs, rest |-> cmd_rest]>>

\* line 201: ffmpeg -y writes to the path it is given.  It leaves the path
\* unchanged when it stops before opening the output (bad graph, missing
\* input), a partial file in place of what was there when it stops later,
\* the new video on success.
OutputAfter(rc, early) ==
    IF rc = 0 THEN {"new"}
    ELSE IF early THEN {"unchanged"}
    ELSE {"unchanged", "partial"}

\* lines 208-219: run ffmpeg; on failure save the command
RunEngine ==
    /\ pc = "run_engine"
    /\ engineRuns' = engineRuns + 1
    /\ \E rc \in {0, 1}, mi \in MissingChoices :
         /\ rc = 0 => (EngineCanSucceed /\ mi = "none")
         /\ returncode' = rc
         /\ missingInput' = mi
         /\ outputFile' \in OutputAfter(rc, ~EngineCanSucceed \/ mi # "none")
         /\ AfterEngine(rc)
    /\ UNCHANGED <<envVars, musicExists, run, prev, outDirMade, N,
                   idx, probeVars, total_duration, buildVars, cmdVars>>

\* ------------------------------------------------------------ environment
Terminal == {"exit_no_ffmpeg", "exit_missing", "done_ok", "done_failed"}

\* another process creates or removes the music file while the script runs
MusicFileChanges ==
    /\ pc \notin Terminal
    /\ musicExists' = ~musicExists
    /\ UNCHANGED <<pc, envVars, run, prev, outDirMade, N, idx, probeVars,
                   total_duration, buildVars, cmdVars, engineVars>>

\* the script is started again on the same poem and the same clips
Rerun ==
    /\ pc \in {"done_ok", "done_failed"}
    /\ run < MaxRuns
    /\ run' = run + 1
    /\ prev' = [N |-> N, probeLog |-> probeLog,
                audio_durations |-> audio_durations,
                musicInGraph |-> musicInGraph,
                musicInCmd |-> (Res("music", None) \in
                                  {cmd_inputs[k] : k \in 1..Len(cmd_inputs)}),
                filter_parts |-> filter_parts,
                cmd_inputs |-> cmd_inputs, cmd_rest |-> cmd_rest]
    /\ pc' = "main"
    /\ outDirMade' = FALSE
    /\ N' = None
    /\ idx' = 0
    /\ probeLog' = <<>>
    /\ audio_durations' = <<>>
    /\ total_duration' = None
    /\ temp_dir' = "none"
    /\ filter_parts' = <<>>
    /\ audio_parts' = <<>>
    /\ video_parts' = <<>>
    /\ current_time' = None
    /\ audio_output' = "none"
    /\ musicInGraph' = FALSE
    /\ cmd_inputs' = <<>>
    /\ cmd_rest' = <<>>
    /\ engineRuns' = 0
    /\ returncode' = None
    /\ debugSaved' = <<>>
    /\ missingInput' = "unknown"
    /\ outputFile' = "unknown"
    /\ printed' = "nothing"
    /\ returned' = "nothing"
    /\ UNCHANGED <<envVars, musicExists>>

Step ==
    \/ CheckFfmpeg
    \/ CheckRequired
    \/ MakeOutputDir
    \/ ReadCsv
    \/ ProbePrimary
    \/ ProbeAlternate
    \/ ProbeFallback
    \/ ComputeTotal
    \/ BuildHead
    \/ BuildSegment
    \/ BuildOutro
    \/ BuildVideoConcat
    \/ BuildAudioConcat
    \/ MixMusic
    \/ BuildCmdInputs
    \/ FinishCmd
    \/ RunEngine
    \/ MusicFileChanges

Next == Step

Spec == Init /\ [][Next]_vars

NextTwice == Step \/ Rerun

SpecTwice == Init /\ [][NextTwice]_vars

\* ============================================================ properties
Probing == {"probe_primary", "probe_alt", "probe_fallback"}
BeforeProbe == {"main", "check_files", "makedirs", "read_csv",
                "exit_no_ffmpeg", "exit_missing"}
\* the lists of pads and the trims of all intervals are complete
AfterVideoConcat == {"build_audio_concat", "mix_music", "build_cmd",
                     "cmd_music", "run_engine", "done_ok", "done_failed"}
AfterAudioConcat == AfterVideoConcat \ {"build_audio_concat"}
CmdComplete == {"run_engine", "done_ok", "done_failed"}

\* the filter of the graph that defines the pad lab
Producer(lab) ==
    filter_parts[CHOOSE k \in 1..Len(filter_parts) : filter_parts[k].out = lab]

\* the background trim behind a video pad: the pad's own trim, or for
\* [v<i>] the trim whose output the overlay reads
TrimOf(lab) ==
    LET p == Producer(lab)
    IN  IF p.kind = "overlay" THEN Producer(p.ins[1]) ELSE p

\* the length the code gives the interval of a video pad
LengthOf(lab) ==
    CASE lab.name = "intro_v" -> intro_duration
      [] lab.name = "outro_v" -> outro_duration
      [] lab.name = "pause" -> pause_duration
      [] lab.name = "v" -> audio_durations[lab.i + 1]

\* the timeline, read off the graph in the order of the video pads:
\* start, end and length of the k-th interval
IntervalStart(k) == TrimOf(video_parts[k]).t0
IntervalEnd(k) == TrimOf(video_parts[k]).t1
IntervalLength(k) == LengthOf(video_parts[k])

OutroEnd == Producer(Lab("outro_v", None)).t1

RECURSIVE ExactSum(_, _)
ExactSum(ds, i) == IF i > Len(ds) THEN 0 ELSE ds[i] + ExactSum(ds, i + 1)

\* the closed form in exact (unrounded) arithmetic
ExactTotal ==
    intro_duration + ExactSum(audio_durations, 1)
        + (N - 1) * pause_duration + outro_duration

Max2(a, b) == IF a >= b THEN a ELSE b

\* C1 as stated: for N >= 1 the end of the outro trim is exactly
\* intro + sum(durations) + (N-1)*pause + outro (total_duration of line 66)
C1_TimelineEndsExactlyAtClosedForm ==
    (pc \in AfterVideoConcat /\ N >= 1) => OutroEnd = total_duration

\* C1 amended: for N >= 1 the end of the outro trim and the closed form agree
\* up to floating-point rounding: they are equal when N = 1, differ by at
\* most 2N units in the last place otherwise, and the end of the outro trim
\* is within N units in the last place of the exact sum
C1_TimelineEndWithinRounding ==
    (pc \in AfterVideoConcat /\ N >= 1) =>
        /\ N = 1 => OutroEnd = total_duration
        /\ Abs(OutroEnd - total_duration)
              <= 2 * N * Ulp(Max2(OutroEnd, total_duration))
        /\ Abs(OutroEnd - ExactTotal) <= N * Ulp(OutroEnd)

\* durations [3.0]: the timeline ends at 7.0, as does the closed form; and
\* a two-segment timeline whose sums are rounded
C1_Witness ==
    /\ pc \in AfterVideoConcat
    /\ audio_durations = <<3 * Scale>>
    /\ OutroEnd = 7 * Scale
    /\ total_duration = 7 * Scale

C1_WitnessRounded ==
    /\ pc \in AfterVideoConcat
    /\ N = 2
    /\ OutroEnd # ExactTotal

Range(f) == { f[k] : k \in DOMAIN f }

\* the pad at position k of a list of len pads in timeline order
ExpectedPad(k, len) ==
    IF k = 1 THEN Lab("intro_v", None)
    ELSE IF k = len THEN Lab("outro_v", None)
    ELSE IF k % 2 = 0 THEN Lab("v", (k \div 2) - 1)
    ELSE Lab("pause", (k - 3) \div 2)

\* C2: in timeline order the background trims are contiguous and do not
\* overlap: the intro starts at 0, every interval has a length >= 0 and ends
\* at its start plus its length, and every interval starts where the
\* previous one starts plus the previous one's length
C2_TrimsContiguous ==
    pc \in AfterVideoConcat =>
        /\ video_parts[1] = Lab("intro_v", None)
        /\ IntervalStart(1) = 0
        /\ \A k \in 1..Len(video_parts) :
              /\ IntervalLength(k) >= 0
              /\ IntervalEnd(k) >= IntervalStart(k)
              /\ IntervalEnd(k) = FAdd(IntervalStart(k), IntervalLength(k))
        /\ \A k \in 1..(Len(video_parts) - 1) :
              /\ IntervalStart(k + 1)
                    = FAdd(IntervalStart(k), IntervalLength(k))
              /\ IntervalStart(k + 1) = IntervalEnd(k)

\* two segments of non-zero length and the pause between them
C2_Witness ==
    /\ pc \in AfterVideoConcat
    /\ N = 2
    /\ IntervalStart(2) < IntervalStart(3)
    /\ IntervalStart(3) < IntervalStart(4)
    /\ IntervalStart(4) < IntervalStart(5)

TrimIndices ==
    { j \in 1..Len(filter_parts) : filter_parts[j].kind = "trim" }

\* C3: for N >= 1 there are exactly 2N+1 video intervals, ordered intro,
\* seg, pause, seg, ..., seg, outro, with N-1 pauses, none after the last
\* segment; every trim of the graph is the interval of exactly one of them
C3_IntervalCountAndOrder ==
    (pc \in AfterVideoConcat /\ N >= 1) =>
        /\ Len(video_parts) = 2 * N + 1
        /\ \A k \in 1..Len(video_parts) :
              video_parts[k] = ExpectedPad(k, 2 * N + 1)
        /\ Cardinality({ k \in 1..Len(video_parts) :
                            video_parts[k].name = "pause" }) = N - 1
        /\ video_parts[Len(video_parts) - 1] = Lab("v", N - 1)
        /\ Cardinality(TrimIndices) = 2 * N + 1
        /\ \A j \in TrimIndices :
              Cardinality({ k \in 1..Len(video_parts) :
                  TrimOf(video_parts[k]) = filter_parts[j] }) = 1

C3_Witness ==
    /\ pc \in AfterVideoConcat
    /\ N = 2
    /\ Len(video_parts) = 5
    /\ video_parts[3] = Lab("pause", 0)

\* the pads that are the video of an interval: outputs of trim and overlay
\* filters that no overlay consumes
VideoPadSet ==
    { filter_parts[k].out : k \in { j \in 1..Len(filter_parts) :
          filter_parts[j].kind \in {"trim", "overlay"} } }
    \ UNION { Range(filter_parts[k].ins) :
              k \in { j \in 1..Len(filter_parts) :
                        filter_parts[j].kind = "overlay" } }

SilencePadSet ==
    { filter_parts[k].out : k \in { j \in 1..Len(filter_parts) :
          filter_parts[j].kind = "aevalsrc" } }

VideoConcat == Producer(Lab("video", None))
AudioConcat == Producer(Lab("concat_audio", None))

\* C4: n= of the video concat is the number of video pads, each of them an
\* input once; n= of the audio concat is the number of silences plus the N
\* segment audio inputs; both list their inputs in timeline order
C4_ConcatCountsAndOrder ==
    pc \in AfterAudioConcat =>
        LET vc == VideoConcat
            ac == AudioConcat
        IN  /\ vc.t0 = Cardinality(VideoPadSet)
            /\ Len(vc.ins) = vc.t0
            /\ Range(vc.ins) = VideoPadSet
            /\ \A k \in 1..Len(vc.ins) :
                  vc.ins[k] = ExpectedPad(k, Len(vc.ins))
            /\ ac.t0 = Cardinality(SilencePadSet) + N
            /\ Len(ac.ins) = ac.t0
            /\ SilencePadSet \subseteq Range(ac.ins)
            /\ Cardinality({ k \in 1..Len(ac.ins) : IsExt(ac.ins[k]) }) = N
            /\ \A k \in 1..Len(ac.ins) :
                  IF k = 1 THEN ac.ins[k] = Lab("intro_audio", None)
                  ELSE IF k = Len(ac.ins)
                       THEN ac.ins[k] = Lab("outro_audio", None)
                  ELSE IF k % 2 = 0
                       THEN /\ ac.ins[k].name = "ext:a"
                            /\ k > 2 => ac.ins[k].i > ac.ins[k - 2].i
                  ELSE ac.ins[k] = Lab("pause_audio", (k - 3) \div 2)

C4_Witness ==
    /\ pc \in AfterAudioConcat
    /\ N = 2
    /\ VideoConcat.t0 = 5
    /\ AudioConcat.t0 = 5

\* C5: every external input index of the graph is the position of its
\* resource among the -i arguments: background 0, image i at i+1, audio i
\* at N+i+1, the music (when used) at 2N+1
C5_InputIndexIsPosition ==
    pc \in CmdComplete =>
        /\ Producer(Lab("bg", None)).ins[1] = Ext(0, "ext:v")
        /\ cmd_inputs[0 + 1] = Res("background_video", None)
        /\ \A i \in 0..(N - 1) :
              LET r == Producer(Lab("overlay", i)).ins[1]
                  a == AudioConcat.ins[2 * i + 2]
              IN  /\ r = Ext(i + 1, "ext:v")
                  /\ cmd_inputs[r.i + 1] = Res("image", i)
                  /\ a = Ext(N + i + 1, "ext:a")
                  /\ cmd_inputs[a.i + 1] = Res("audio", i)
        /\ musicInGraph =>
              Producer(Lab("music", None)).ins[1] = Ext(2 * N + 1, "ext:a")
        /\ Res("music", None) \in Range(cmd_inputs) =>
              /\ Len(cmd_inputs) = 2 * N + 2
              /\ cmd_inputs[2 * N + 1 + 1] = Res("music", None)

C5_Witness ==
    /\ pc \in CmdComplete
    /\ N = 2
    /\ musicInGraph
    /\ Res("music", None) \in Range(cmd_inputs)
    /\ cmd_inputs[5] = Res("audio", 1)

MusicInCmd == Res("music", None) \in Range(cmd_inputs)

\* C6: whenever the engine is invoked, every external input index of the
\* graph is below the number of -i inputs, and the graph reads the music
\* input exactly when the music file is among the inputs
C6_NoDanglingInputReference ==
    engineRuns >= 1 =>
        /\ \A r \in ExtRefs(filter_parts) : r < Len(cmd_inputs)
        /\ musicInGraph <=> MusicInCmd

\* C7: a second build from the same segment count, the same durations and
\* the same music presence gives the same graph text and the same arguments
C7_RebuildIsIdentical ==
    ( /\ run >= 2
      /\ pc \in CmdComplete
      /\ N = prev.N
      /\ audio_durations = prev.audio_durations
      /\ musicInGraph = prev.musicInGraph
      /\ MusicInCmd = prev.musicInCmd )
    => /\ filter_parts = prev.filter_parts
       /\ cmd_inputs = prev.cmd_inputs
       /\ cmd_rest = prev.cmd_rest

\* a second build of a two-segment graph with the music mixed in
C7_Witness ==
    /\ run >= 2
    /\ pc \in CmdComplete
    /\ N = 2
    /\ musicInGraph
    /\ musicInGraph = prev.musicInGraph
    /\ MusicInCmd = prev.musicInCmd
    /\ filter_parts = prev.filter_parts
    /\ cmd_rest = prev.cmd_rest

\* C8: the primary query comes first, the alternate query runs only after
\* the primary one failed, the fallback 2.0 is returned only after both
\* failed, and a failed query ends in its handler, never outside the prober
C8_ProbeOrderAndFallback ==
    \A k \in 1..Len(probeLog) :
        LET e == probeLog[k]
        IN  /\ e.alternate # "skipped" => e.primary # "ok"
            /\ e.src = "primary" <=> e.primary = "ok"
            /\ e.src = "alternate" <=> (e.primary # "ok" /\ e.alternate = "ok")
            /\ e.src = "fallback" =>
                  /\ e.primary # "ok"
                  /\ e.alternate \in {"fail", "unavailable"}
                  /\ audio_durations[k] = FallbackDuration
            /\ e.src = "pending" =>
                  /\ k = Len(probeLog)
                  /\ pc \in {"probe_alt", "probe_fallback"}
                  /\ pc = "probe_alt" <=> e.alternate = "skipped"

\* both queries of a clip failed to parse and 2.0 was returned
C8_Witness ==
    /\ Len(probeLog) >= 1
    /\ probeLog[1].primary = "fail"
    /\ probeLog[1].alternate = "fail"
    /\ probeLog[1].src = "fallback"
    /\ pc \in CmdComplete

\* C9: when ffprobe cannot be started the run aborts: no fallback duration
\* is substituted, no graph is built and the engine is not invoked
C9_ProbeUnavailableAborts ==
    (~ffprobeAvailable /\ Len(probeLog) >= 1) =>
        /\ \A k \in 1..Len(probeLog) : probeLog[k].src # "fallback"
        /\ filter_parts = <<>>
        /\ engineRuns = 0

\* C10: a failed probe changes only its own segment's duration: the list
\* keeps segment order, every entry is 2.0 where the probe failed and the
\* clip's probed value elsewhere, and all N clips are probed
C10_ProbeFailureIsolated ==
    /\ Len(audio_durations) <= Len(probeLog)
    /\ \A k \in 1..Len(audio_durations) :
          CASE probeLog[k].src = "fallback" ->
                  audio_durations[k] = FallbackDuration
            [] probeLog[k].src \in {"primary", "alternate"} ->
                  audio_durations[k] = probeLog[k].reported
            [] OTHER -> FALSE
    /\ pc \in Probing => Len(audio_durations) = idx
    /\ (pc \notin BeforeProbe /\ pc \notin Probing) =>
          /\ Len(audio_durations) = N
          /\ Len(probeLog) = N

\* the second of two probes failed, the first kept its own value
C10_Witness ==
    /\ pc \in CmdComplete
    /\ N = 2
    /\ probeLog[1].src = "primary"
    /\ probeLog[2].src = "fallback"
    /\ audio_durations = <<101, FallbackDuration>>

\* C11: with zero segments the run fails validation: no timeline total is
\* computed, no graph is built and the engine is never invoked
C11_EmptyPoemFailsValidation ==
    N = 0 =>
        /\ total_duration = None
        /\ filter_parts = <<>>
        /\ engineRuns = 0

\* C12: when the background video is missing at the start, the run ends in
\* the failure exit of the requirement checks of main (the missing-files
\* exit once ffmpeg -version has passed) before any probe, any graph node
\* and any engine call, and nothing is written: no output directory, no
\* command, no debug file
C12_MissingVideoFailsFirst ==
    "background_video" \notin present =>
        /\ pc \in {"main", "check_files", "exit_no_ffmpeg", "exit_missing"}
        /\ ~outDirMade
        /\ N = None
        /\ probeLog = <<>>
        /\ audio_durations = <<>>
        /\ total_duration = None
        /\ filter_parts = <<>>
        /\ cmd_inputs = <<>>
        /\ engineRuns = 0
        /\ debugSaved = <<>>

\* only the background video is missing and the run has ended
C12_Witness ==
    /\ present = RequiredPaths \ {"background_video"}
    /\ pc = "exit_missing"

\* C13: when a per-line image or audio file is missing, the driver fails
\* fast with the missing-files exit: the prober is not invoked, no graph is
\* built and the engine is not run
C13_MissingLineFileFailsFast ==
    missingInput \in {"image", "audio"} =>
        /\ pc = "exit_missing"
        /\ probeLog = <<>>
        /\ filter_parts = <<>>
        /\ engineRuns = 0

\* C14: a non-zero exit of the engine writes the whole invocation (graph
\* text and argument list) to the debug file and gives the caller a
\* TranscodeFailure result; a zero exit writes no debug file
C14_TranscodeFailureReported ==
    /\ pc = "done_failed" =>
          /\ debugSaved = <<[inputs |-> cmd_inputs, rest |-> cmd_rest]>>
          /\ debugSaved[1].rest[1].filter_complex = filter_parts
          /\ returned = "TranscodeFailure"
    /\ pc = "done_ok" => debugSaved = <<>>

\* C15: the engine is given a temporary path, and after a failed run the
\* output path is as it was before: no partial file, no replaced file
C15_NoOutputAfterFailure ==
    /\ engineRuns >= 1 => cmd_rest[1].output = "temporary_path"
    /\ pc = "done_failed" => outputFile = "unchanged"

RECURSIVE LengthsUpTo(_)
\* the lengths of the first k video intervals, added up in timeline order
LengthsUpTo(k) ==
    IF k = 0 THEN 0 ELSE FAdd(LengthsUpTo(k - 1), IntervalLength(k))

\* C16: whenever the engine is invoked, the -t argument equals the end of
\* the outro trim, which is the sum of the lengths of the video intervals
\* given to the video concat
C16_ClampIsTimelineTotal ==
    engineRuns >= 1 =>
        /\ cmd_rest[1].t = OutroEnd
        /\ OutroEnd = LengthsUpTo(Len(video_parts))

\* C17: the stages run one after the other: every one of the N probes has
\* returned before a total, a timeline offset or a graph node exists; the
\* graph text and the argument list are complete before the engine starts;
\* the engine is started at most once in a run
C17_StagesInSequence ==
    /\ (total_duration # None \/ current_time # None \/ filter_parts # <<>>)
          => /\ pc \notin Probing
             /\ Len(audio_durations) = N
             /\ Len(probeLog) = N
             /\ \A k \in 1..N : probeLog[k].src # "pending"
    /\ (pc = "run_engine" \/ engineRuns >= 1)
          => /\ cmd_rest # <<>>
             /\ cmd_rest[1].filter_complex = filter_parts
             /\ filter_parts[Len(filter_parts)].out = Lab("final_audio", None)
             /\ Len(cmd_inputs) >= 2 * N + 1
    /\ pc = "run_engine" => engineRuns = 0
    /\ engineRuns <= 1

\* a run of two segments that went through every stage
C17_Witness ==
    /\ pc = "done_ok"
    /\ N = 2
    /\ engineRuns = 1
    /\ Len(probeLog) = 2

\* the external inputs a graph of N segments may read: the background
\* video and the images as video streams, the audio files and the music
\* file as audio streams
IsGraphInput(ref) ==
    \/ ref.name = "ext:v" /\ ref.i \in 0..ImageInput(N - 1)
    \/ ref.name = "ext:a" /\ ref.i \in AudioInput(0, N)..MusicInput(N)

\* some filter before position k writes the pad lab
DefinedBefore(lab, k) ==
    \E e \in 1..(k - 1) : filter_parts[e].out = lab

\* C18: in the emitted graph, in emission order, every input pad of a
\* filter is an external input or the output of an earlier filter; [intro_v]
\* is defined after the segment and outro filters and before the video
\* concat that reads it
C18_NoForwardReference ==
    /\ \A k \in 1..Len(filter_parts) :
          \A j \in 1..Len(filter_parts[k].ins) :
             \/ IsGraphInput(filter_parts[k].ins[j])
             \/ DefinedBefore(filter_parts[k].ins[j], k)
    /\ pc \in AfterVideoConcat =>
          \E t \in 1..Len(filter_parts) :
             /\ filter_parts[t].out = Lab("intro_v", None)
             /\ DefinedBefore(Lab("outro_v", None), t)
             /\ \A i \in 0..(N - 1) : DefinedBefore(Lab("v", i), t)
             /\ \A i \in 0..(N - 2) : DefinedBefore(Lab("pause", i), t)
             /\ \E c \in (t + 1)..Len(filter_parts) :
                   /\ filter_parts[c].kind = "concat_v"
                   /\ filter_parts[c].ins[1] = Lab("intro_v", None)

\* the complete graph of two segments with the music mixed in
C18_Witness ==
    /\ pc = "run_engine"
    /\ N = 2
    /\ musicInGraph
    /\ filter_parts[Len(filter_parts)].kind = "amix"

\* the text of a pad label as the f-strings print it: the name, then the
\* segment index in decimal when the label carries one
LabelText(lab) ==
    IF lab.i = None THEN lab.name ELSE lab.name \o ToString(lab.i)

\* the names the labels of the graph are built from
LabelNames ==
    {"bg", "intro_v", "intro_audio", "overlay", "v", "pause", "pause_audio",
     "outro_v", "outro_audio", "video", "concat_audio", "voice", "music",
     "final_audio"}

\* C19: within one graph no output pad label is written twice, whatever N
\* and whichever music branch was taken: the printed labels of any two
\* filters differ, and every label is one of the known names
C19_OutputLabelsDistinct ==
    /\ \A l \in 1..Len(filter_parts) :
          \A k \in 1..(l - 1) :
             LabelText(filter_parts[k].out) # LabelText(filter_parts[l].out)
    /\ \A k \in 1..Len(filter_parts) :
          /\ filter_parts[k].out.name \in LabelNames
          /\ filter_parts[k].out.i # None
                <=> filter_parts[k].out.name
                       \in {"bg", "overlay", "v", "pause", "pause_audio"}
                    /\ filter_parts[k].kind # "scalecrop"
    /\ pc \in CmdComplete =>
          Len(filter_parts) = 7 + 3 * N + 2 * Max2(N - 1, 0)
                              + (IF musicInGraph THEN 3 ELSE 1)

\* a complete graph of two segments with a pause and the music branch
C19_Witness ==
    /\ pc = "run_engine"
    /\ N = 2
    /\ musicInGraph
    /\ \E k \in 1..Len(filter_parts) : LabelText(filter_parts[k].out) = "pause0"
    /\ \E k \in 1..Len(filter_parts) : LabelText(filter_parts[k].out) = "bg1"
    /\ \E k \in 1..Len(filter_parts) : LabelText(filter_parts[k].out) = "music"

\* the voice filter with gain and both band limits, reading the audio concat
ShapedVoice(node) ==
    /\ node.kind = "volume_highpass_lowpass"
    /\ node.ins = <<Lab("concat_audio", None)>>

\* C20: the audio pad mapped to the output is the voice after gain and
\* band limiting: with music in the graph it is the mix of the shaped voice
\* and the gained music, without music it is the shaped voice itself
C20_FinalAudioIsShapedVoice ==
    pc \in CmdComplete =>
       LET fin == Producer(Lab(cmd_rest[1].map[2], None))
       IN  IF musicInGraph
           THEN /\ fin.kind = "amix"
                /\ Len(fin.ins) = 2
                /\ ShapedVoice(Producer(fin.ins[1]))
                /\ Producer(fin.ins[2]).kind = "volume_music"
           ELSE ShapedVoice(fin)

\* the entry of the audio list that belongs with a pad of the video list
AudioFor(lab) ==
    CASE lab.name = "intro_v" -> Lab("intro_audio", None)
      [] lab.name = "outro_v" -> Lab("outro_audio", None)
      [] lab.name = "pause" -> Lab("pause_audio", lab.i)
      [] lab.name = "v" -> Ext(AudioInput(lab.i, N), "ext:a")

\* the length of an entry of the audio list: the duration probed for a
\* segment's audio input, the duration written into a silence source
AudioLength(ref) ==
    IF IsExt(ref) THEN audio_durations[ref.i - N] ELSE Producer(ref).t0

RECURSIVE AudioOffset(_)
\* where the k-th entry of the audio list starts: the lengths of the
\* entries before it, added up in list order
AudioOffset(k) ==
    IF k = 1 THEN 0
    ELSE FAdd(AudioOffset(k - 1), AudioLength(audio_parts[k - 1]))

\* C21: the inputs of the video concat and of the audio concat correspond
\* position by position: both lists have 2N+1 entries, position k is the
\* intro, segment i, pause i or the outro in both, the video interval at a
\* position has the length of the silence or of the probed audio at that
\* position, and every audio entry starts where its video interval starts
C21_ConcatListsCorrespond ==
    pc \in AfterAudioConcat =>
        /\ Len(VideoConcat.ins) = 2 * N + 1
        /\ Len(AudioConcat.ins) = 2 * N + 1
        /\ VideoConcat.ins = video_parts
        /\ AudioConcat.ins = audio_parts
        /\ \A k \in 1..Len(video_parts) :
              /\ video_parts[k] = ExpectedPad(k, Len(video_parts))
              /\ k <= Len(audio_parts)
              /\ audio_parts[k] = AudioFor(video_parts[k])
              /\ IntervalLength(k) = AudioLength(audio_parts[k])
              /\ IntervalEnd(k)
                    = FAdd(IntervalStart(k), AudioLength(audio_parts[k]))
              /\ IntervalStart(k) = AudioOffset(k)

====
